---- MODULE Spec2Model ----
(***************************************************************************)
(* ws_diag_control.h: the macros that turn compiler diagnostics off and on. *)
(*                                                                         *)
(* The header is a table resolved by the preprocessor.  A build            *)
(* configuration (which of __clang__, __GNUC__, _MSC_VER, __APPLE__ and    *)
(* YYBYACC are defined, and the versions the compiler reports) selects the *)
(* replacement list of every macro.  A replacement list is modelled as the *)
(* sequence of pragma directives it leaves in the translation unit; a      *)
(* directive is the sequence of its tokens.  The compiler that reads the   *)
(* directives keeps a stack of saved diagnostic states and the set of      *)
(* warnings that are currently disabled.                                   *)
(***************************************************************************)
EXTENDS Integers, Sequences, FiniteSets, TLC

VARIABLES
    cfg,      \* the build configuration the header is preprocessed under
    cc,       \* the compiler's diagnostic state: [stack, ignored, underflow, error]
    phase,    \* "idle" | "off" | "on" (one off/on pair)  or  "nest" (nested uses)
    use,      \* the macro pair in use and its argument
    offOut,   \* directives the off macro expanded to
    onOut,    \* directives the on macro expanded to
    before,   \* the compiler's diagnostic state before the off macro
    open,     \* nested uses: arguments of the DIAG_OFF uses not yet closed, outermost first
    closed    \* the last DIAG_ON: the argument it was given and the one it closed

vars == <<cfg, cc, phase, use, offOut, onOut, before, open, closed>>

(***************************************************************************)
(* Bounds.                                                                 *)
(***************************************************************************)
MaxMajor == 5      \* compiler major versions 1..MaxMajor
MaxMinor == 9      \* compiler minor versions 0..MaxMinor
MaxDepth == 3      \* deepest nesting of DIAG_OFF regions explored

(***************************************************************************)
(* Build configurations.                                                   *)
(***************************************************************************)
NoVersion == <<0, 0>>

Versions == (1..MaxMajor) \X (0..MaxMinor)

\* an identification macro is either undefined or defined with a version
Identity == {<<FALSE, NoVersion>>} \cup ({TRUE} \X Versions)

MkConfig(c, g, m, a, y) ==
    [clang |-> c[1], clang_major |-> c[2][1], clang_minor |-> c[2][2],
     gnuc  |-> g[1], gnuc_major  |-> g[2][1], gnuc_minor  |-> g[2][2],
     msc |-> m, apple |-> a, byacc |-> y]

Configs ==
    {MkConfig(c, g, m, a, y) :
        c \in Identity, g \in Identity, m \in BOOLEAN, a \in BOOLEAN, y \in BOOLEAN}

(***************************************************************************)
(* ws_compiler_tests.h: "is the compiler at least major.minor of family F" *)
(***************************************************************************)
WS_IS_AT_LEAST_CLANG_VERSION(c, major, minor) ==
    /\ c.clang
    /\ \/ c.clang_major > major
       \/ (c.clang_major = major /\ c.clang_minor >= minor)

WS_IS_AT_LEAST_GNUC_VERSION(c, major, minor) ==
    /\ c.gnuc
    /\ \/ c.gnuc_major > major
       \/ (c.gnuc_major = major /\ c.gnuc_minor >= minor)

(***************************************************************************)
(* The helper macros.                                                      *)
(***************************************************************************)
\* #x : the spelling of x as a string literal
XSTRINGIFY(x) == "\"" \o x \o "\""

\* XSTRINGIFY(x ## y)
DIAG_JOINSTR(x, y) == XSTRINGIFY(x \o y)

\* _Pragma (#x) : the directive  #pragma x
DIAG_DO_PRAGMA(x) == <<"#pragma">> \o x

\* __pragma(x), the Microsoft form: the directive  #pragma x
__pragma(x) == <<"#pragma">> \o x

(***************************************************************************)
(* DIAG_OFF / DIAG_ON: the version gate and the fallback.                  *)
(***************************************************************************)
\* the chain with the __GNUC__ test ahead of the __clang__ test
GateFamily_GnucFirst(c) ==
    IF c.gnuc
    THEN IF WS_IS_AT_LEAST_GNUC_VERSION(c, 4, 8) THEN "GCC" ELSE "none"
    ELSE IF c.clang
         THEN IF WS_IS_AT_LEAST_CLANG_VERSION(c, 2, 8) THEN "clang" ELSE "none"
         ELSE "none"

\* the #if / #elif chain: which "<family> diagnostic" form DIAG_PRAGMA gets
GateFamily(c) ==
    IF c.clang
    THEN IF WS_IS_AT_LEAST_CLANG_VERSION(c, 2, 8) THEN "clang" ELSE "none"
    ELSE IF c.gnuc
         THEN IF WS_IS_AT_LEAST_GNUC_VERSION(c, 4, 8) THEN "GCC" ELSE "none"
         ELSE "none"

\* the macros the chain defines
GateDefines(c) ==
    IF GateFamily(c) = "none" THEN {} ELSE {"DIAG_PRAGMA", "DIAG_OFF", "DIAG_ON"}

\* the header without its #ifndef DIAG_OFF fallback
FallbackDefines_Omitted(c) == {}

\* #ifndef DIAG_OFF : the macros the fallback defines
FallbackDefines(c) ==
    IF "DIAG_OFF" \notin GateDefines(c) THEN {"DIAG_OFF", "DIAG_ON"} ELSE {}

DIAG_PRAGMA(c, x) == DIAG_DO_PRAGMA(<<GateFamily(c), "diagnostic">> \o x)

\* a use of a name that is no macro stays in the translation unit as it is
Unexpanded(name) == <<<<name>>>>

\* DIAG_OFF without the push: only the "ignored" directive
DIAG_OFF_NoPush(c, x) ==
    IF "DIAG_OFF" \in GateDefines(c)
    THEN <<DIAG_PRAGMA(c, <<"ignored", DIAG_JOINSTR("-W", x)>>)>>
    ELSE << >>


DIAG_OFF(c, x) ==
    IF "DIAG_OFF" \in GateDefines(c)
    THEN <<DIAG_PRAGMA(c, <<"push">>),
           DIAG_PRAGMA(c, <<"ignored", DIAG_JOINSTR("-W", x)>>)>>
    ELSE IF "DIAG_OFF" \in FallbackDefines(c)
         THEN << >>
         ELSE Unexpanded("DIAG_OFF")

DIAG_ON(c, x) ==
    IF "DIAG_ON" \in GateDefines(c)
    THEN <<DIAG_PRAGMA(c, <<"pop">>)>>
    ELSE IF "DIAG_ON" \in FallbackDefines(c)
         THEN << >>
         ELSE Unexpanded("DIAG_ON")

(***************************************************************************)
(* DIAG_OFF_CLANG / DIAG_ON_CLANG.                                         *)
(***************************************************************************)
\* DIAG_OFF_CLANG without the #ifdef __clang__
DIAG_OFF_CLANG_Always(c, x) == DIAG_OFF(c, x)


DIAG_OFF_CLANG(c, x) == IF c.clang THEN DIAG_OFF(c, x) ELSE << >>

DIAG_ON_CLANG(c, x) == IF c.clang THEN DIAG_ON(c, x) ELSE << >>

(***************************************************************************)
(* DIAG_OFF_FLEX / DIAG_ON_FLEX.                                           *)
(***************************************************************************)
\* DIAG_OFF_FLEX testing __clang__ alone, not __APPLE__
DIAG_OFF_FLEX_ClangOnly(c) ==
    IF c.msc
    THEN <<__pragma(<<"warning", "push">>),
           __pragma(<<"warning", "disable", "4018">>),
           __pragma(<<"warning", "disable", "4244">>),
           __pragma(<<"warning", "disable", "4267">>),
           __pragma(<<"warning", "disable", "6011">>),
           __pragma(<<"warning", "disable", "6308">>),
           __pragma(<<"warning", "disable", "6386">>),
           __pragma(<<"warning", "disable", "6387">>),
           __pragma(<<"warning", "disable", "28182">>)>>
    ELSE IF c.clang
         THEN DIAG_OFF(c, "sign-compare")
              \o DIAG_OFF(c, "shorten-64-to-32")
              \o DIAG_OFF(c, "unreachable-code")
         ELSE DIAG_OFF(c, "sign-compare")

\* DIAG_OFF_FLEX without the _MSC_VER branch
DIAG_OFF_FLEX_NoMsc(c) ==
    IF c.clang \/ c.apple
    THEN DIAG_OFF(c, "sign-compare")
         \o DIAG_OFF(c, "shorten-64-to-32")
         \o DIAG_OFF(c, "unreachable-code")
    ELSE DIAG_OFF(c, "sign-compare")


DIAG_OFF_FLEX(c) ==
    IF c.msc
    THEN <<__pragma(<<"warning", "push">>),
           __pragma(<<"warning", "disable", "4018">>),
           __pragma(<<"warning", "disable", "4244">>),
           __pragma(<<"warning", "disable", "4267">>),
           __pragma(<<"warning", "disable", "6011">>),
           __pragma(<<"warning", "disable", "6308">>),
           __pragma(<<"warning", "disable", "6386">>),
           __pragma(<<"warning", "disable", "6387">>),
           __pragma(<<"warning", "disable", "28182">>)>>
    ELSE IF c.clang \/ c.apple
         THEN DIAG_OFF(c, "sign-compare")
              \o DIAG_OFF(c, "shorten-64-to-32")
              \o DIAG_OFF(c, "unreachable-code")
         ELSE DIAG_OFF(c, "sign-compare")

DIAG_ON_FLEX(c) ==
    IF c.msc
    THEN <<__pragma(<<"warning", "pop">>)>>
    ELSE IF c.clang \/ c.apple
         THEN DIAG_OFF(c, "unreachable-code")
              \o DIAG_ON(c, "shorten-64-to-32")
              \o DIAG_ON(c, "sign-compare")
         ELSE DIAG_ON(c, "sign-compare")

(***************************************************************************)
(* DIAG_OFF_BYACC / DIAG_ON_BYACC.                                         *)
(***************************************************************************)
\* DIAG_OFF_BYACC without the #ifdef YYBYACC
DIAG_OFF_BYACC_Always(c) == IF c.msc THEN << >> ELSE DIAG_OFF(c, "shadow")


DIAG_OFF_BYACC(c) ==
    IF c.msc
    THEN << >>
    ELSE IF c.byacc THEN DIAG_OFF(c, "shadow") ELSE << >>

DIAG_ON_BYACC(c) ==
    IF c.msc
    THEN << >>
    ELSE IF c.byacc THEN DIAG_ON(c, "SHADOW") ELSE << >>

(***************************************************************************)
(* USES_APPLE_DEPRECATED_API / USES_APPLE_RST.                             *)
(***************************************************************************)
USES_APPLE_DEPRECATED_API(c) ==
    IF c.apple THEN DIAG_OFF(c, "deprecated-declarations") ELSE << >>

\* USES_APPLE_RST without the #ifdef __APPLE__
USES_APPLE_RST_Always(c) == DIAG_ON(c, "deprecated-declarations")


USES_APPLE_RST(c) ==
    IF c.apple THEN DIAG_ON(c, "deprecated-declarations") ELSE << >>

(***************************************************************************)
(* The compiler reading the directives.  "diagnostic push" / "warning      *)
(* push" saves the current state, "pop" restores the state saved last,     *)
(* "ignored" / "disable" adds one warning to the disabled ones.            *)
(***************************************************************************)
Fresh == [stack |-> << >>, ignored |-> {}, underflow |-> FALSE, error |-> FALSE]

Push(st) == [st EXCEPT !.stack = Append(@, st.ignored)]

Pop(st) ==
    IF st.stack = << >>
    THEN [st EXCEPT !.underflow = TRUE]
    ELSE [st EXCEPT !.ignored = st.stack[Len(st.stack)],
                    !.stack = SubSeq(@, 1, Len(@) - 1)]

Ignore(st, w) == [st EXCEPT !.ignored = @ \cup {w}]

Exec(st, d) ==
    IF d[1] # "#pragma"
    THEN [st EXCEPT !.error = TRUE]
    ELSE IF d[2] \in {"clang", "GCC"} /\ d[3] = "diagnostic"
         THEN CASE d[4] = "push"    -> Push(st)
                [] d[4] = "pop"     -> Pop(st)
                [] d[4] = "ignored" -> Ignore(st, d[5])
                [] OTHER            -> [st EXCEPT !.error = TRUE]
         ELSE IF d[2] = "warning"
              THEN CASE d[3] = "push"    -> Push(st)
                     [] d[3] = "pop"     -> Pop(st)
                     [] d[3] = "disable" -> Ignore(st, d[4])
                     [] OTHER            -> [st EXCEPT !.error = TRUE]
              ELSE [st EXCEPT !.error = TRUE]

RECURSIVE Run(_, _)
Run(st, ds) == IF ds = << >> THEN st ELSE Run(Exec(st, Head(ds)), Tail(ds))

(***************************************************************************)
(* Uses of the macros in a translation unit.                               *)
(***************************************************************************)
\* warning names a translation unit hands to the macros that take one
Warnings == {"shadow", "SHADOW"}

NoUse == [macro |-> "", arg |-> ""]

NoClose == [off |-> "", on |-> ""]

\* the off macro of a pair expands and the compiler reads the result
Off(macro, x, out) ==
    /\ phase = "idle"
    /\ phase' = "off"
    /\ use' = [macro |-> macro, arg |-> x]
    /\ offOut' = out
    /\ before' = cc
    /\ cc' = Run(cc, out)
    /\ UNCHANGED <<cfg, onOut, open, closed>>

\* the matching on macro expands and the compiler reads the result
On(macro, out) ==
    /\ phase = "off"
    /\ use.macro = macro
    /\ phase' = "on"
    /\ onOut' = out
    /\ cc' = Run(cc, out)
    /\ UNCHANGED <<cfg, use, offOut, before, open, closed>>

\* the pair may be used inside a region an enclosing DIAG_OFF(pedantic) opened
UseOuterDiagOff ==
    /\ phase = "idle"
    /\ cc = Fresh
    /\ cc' = Run(cc, DIAG_OFF(cfg, "pedantic"))
    /\ UNCHANGED <<cfg, phase, use, offOut, onOut, before, open, closed>>

UseDiagOff == \E x \in Warnings : Off("DIAG_OFF", x, DIAG_OFF(cfg, x))

UseDiagOn == On("DIAG_OFF", DIAG_ON(cfg, use.arg))

UseDiagOffClang == \E x \in Warnings : Off("DIAG_OFF_CLANG", x, DIAG_OFF_CLANG(cfg, x))

UseDiagOnClang == On("DIAG_OFF_CLANG", DIAG_ON_CLANG(cfg, use.arg))

UseDiagOffFlex == Off("DIAG_OFF_FLEX", "", DIAG_OFF_FLEX(cfg))

UseDiagOnFlex == On("DIAG_OFF_FLEX", DIAG_ON_FLEX(cfg))

UseDiagOffByacc == Off("DIAG_OFF_BYACC", "", DIAG_OFF_BYACC(cfg))

UseDiagOnByacc == On("DIAG_OFF_BYACC", DIAG_ON_BYACC(cfg))

UseAppleDeprecatedApi == Off("USES_APPLE_DEPRECATED_API", "", USES_APPLE_DEPRECATED_API(cfg))

UseAppleRst == On("USES_APPLE_DEPRECATED_API", USES_APPLE_RST(cfg))

Init ==
    /\ cfg \in Configs
    /\ cc = Fresh
    /\ phase = "idle"
    /\ use = NoUse
    /\ offOut = << >>
    /\ onOut = << >>
    /\ before = Fresh
    /\ open = << >>
    /\ closed = NoClose

Next ==
    \/ UseOuterDiagOff
    \/ UseDiagOff
    \/ UseDiagOn
    \/ UseDiagOffClang
    \/ UseDiagOnClang
    \/ UseDiagOffFlex
    \/ UseDiagOnFlex
    \/ UseDiagOffByacc
    \/ UseDiagOnByacc
    \/ UseAppleDeprecatedApi
    \/ UseAppleRst

Spec == Init /\ [][Next]_vars

(***************************************************************************)
(* Nested uses of the generic pair, on compilers around the version gates. *)
(***************************************************************************)
NestVersions == {v \in Versions : v[1] \in {2, 4} /\ v[2] \in {7, 8}}

NestIdentity == {<<FALSE, NoVersion>>} \cup ({TRUE} \X NestVersions)

NestConfigs ==
    {MkConfig(c, g, FALSE, FALSE, FALSE) : c \in NestIdentity, g \in NestIdentity}

NestDiagOff ==
    /\ phase = "nest"
    /\ Len(open) < MaxDepth
    /\ \E x \in Warnings :
          /\ cc' = Run(cc, DIAG_OFF(cfg, x))
          /\ open' = Append(open, x)
    /\ closed' = NoClose
    /\ UNCHANGED <<cfg, phase, use, offOut, onOut, before>>

NestDiagOn ==
    /\ phase = "nest"
    /\ open # << >>
    /\ \E y \in Warnings :
          /\ cc' = Run(cc, DIAG_ON(cfg, y))
          /\ closed' = [off |-> open[Len(open)], on |-> y]
    /\ open' = SubSeq(open, 1, Len(open) - 1)
    /\ UNCHANGED <<cfg, phase, use, offOut, onOut, before>>

InitNest ==
    /\ cfg \in NestConfigs
    /\ cc = Fresh
    /\ phase = "nest"
    /\ use = NoUse
    /\ offOut = << >>
    /\ onOut = << >>
    /\ before = Fresh
    /\ open = << >>
    /\ closed = NoClose

NextNest == NestDiagOff \/ NestDiagOn

SpecNest == InitNest /\ [][NextNest]_vars

(***************************************************************************)
(* Vocabulary of the properties.                                           *)
(***************************************************************************)
ClangNumber == cfg.clang_major * 100 + cfg.clang_minor

GnucNumber == cfg.gnuc_major * 100 + cfg.gnuc_minor

\* Clang 2.8 or later
ClangActive == cfg.clang /\ ClangNumber >= 208

\* not Clang, and GCC-compatible 4.8 or later
GccActive == ~cfg.clang /\ cfg.gnuc /\ GnucNumber >= 408

Active == ClangActive \/ GccActive

\* DIAG_OFF is the push/ignored definition, not the empty fallback
DiagActive == "DIAG_OFF" \in GateDefines(cfg)

InPair(macro) == phase \in {"off", "on"} /\ use.macro = macro

\* the spelling of warning x in an "ignored" directive
Flag(x) == "\"-W" \o x \o "\""

PushOf(fam) == <<"#pragma", fam, "diagnostic", "push">>

PopOf(fam) == <<"#pragma", fam, "diagnostic", "pop">>

IgnoredOf(fam, x) == <<"#pragma", fam, "diagnostic", "ignored", Flag(x)>>

Emitted == offOut \o onOut

Count(ds, word) == Cardinality({i \in 1..Len(ds) : ds[i][Len(ds[i])] = word})

\* C1: after an off macro and its matching on macro, as many pops as pushes
\* were emitted, and the diagnostic stack and the set of disabled warnings are
\* what they were before the off macro
C1_Balanced ==
    phase = "on" =>
        /\ Count(Emitted, "push") = Count(Emitted, "pop")
        /\ Len(cc.stack) = Len(before.stack)
        /\ cc.ignored = before.ignored

\* C2: DIAG_OFF(x) / DIAG_ON(x) are push + ignored "-Wx" / pop in the clang
\* form on Clang >= 2.8, in the GCC form on a non-Clang GCC-compatible >= 4.8,
\* and are defined and empty in every other configuration
C2_VersionGate ==
    InPair("DIAG_OFF") =>
        /\ {"DIAG_OFF", "DIAG_ON"} \subseteq GateDefines(cfg) \cup FallbackDefines(cfg)
        /\ ~cc.error
        /\ ClangActive =>
              /\ offOut = <<PushOf("clang"), IgnoredOf("clang", use.arg)>>
              /\ phase = "on" => onOut = <<PopOf("clang")>>
        /\ GccActive =>
              /\ offOut = <<PushOf("GCC"), IgnoredOf("GCC", use.arg)>>
              /\ phase = "on" => onOut = <<PopOf("GCC")>>
        /\ ~Active => offOut = << >> /\ onOut = << >>

C2_Witness ==
    /\ InPair("DIAG_OFF") /\ phase = "on"
    /\ GccActive /\ cfg.gnuc_major > 4 /\ cfg.gnuc_minor < 8
    /\ onOut = <<PopOf("GCC")>>

\* C3: where __clang__ is defined DIAG_OFF / DIAG_ON never emit a "GCC
\* diagnostic" directive, and a Clang older than 2.8 gets the no-op pair
\* whatever version __GNUC__ reports
C3_ClangFirst ==
    (InPair("DIAG_OFF") /\ cfg.clang) =>
        /\ \A i \in 1..Len(Emitted) : "GCC" \notin {Emitted[i][k] : k \in 1..Len(Emitted[i])}
        /\ ClangNumber < 208 => offOut = << >> /\ onOut = << >>

C3_Witness ==
    /\ InPair("DIAG_OFF") /\ phase = "on"
    /\ cfg.clang /\ ClangNumber < 208
    /\ cfg.gnuc /\ GnucNumber >= 408

\* C4: DIAG_OFF_CLANG / DIAG_ON_CLANG are empty where __clang__ is not
\* defined, and are DIAG_OFF / DIAG_ON of the configuration where it is
C4_ClangOnly ==
    InPair("DIAG_OFF_CLANG") =>
        /\ ~cfg.clang => offOut = << >> /\ onOut = << >>
        /\ cfg.clang =>
              /\ offOut = DIAG_OFF(cfg, use.arg)
              /\ phase = "on" => onOut = DIAG_ON(cfg, use.arg)

C4_Witness ==
    /\ InPair("DIAG_OFF_CLANG") /\ phase = "on"
    /\ GccActive
    /\ cc = before

\* C5 as stated: outside Microsoft configurations DIAG_OFF_FLEX includes the
\* shorten-64-to-32 suppression if and only if __clang__ or __APPLE__ is defined
C5_Original ==
    (InPair("DIAG_OFF_FLEX") /\ ~cfg.msc) =>
        ((\E i \in 1..Len(offOut) : Flag("shorten-64-to-32") \in {offOut[i][k] : k \in 1..Len(offOut[i])})
            <=> (cfg.clang \/ cfg.apple))

\* C5 amended: outside Microsoft configurations DIAG_OFF_FLEX emits the
\* shorten-64-to-32 suppression if and only if __clang__ or __APPLE__ is
\* defined and DIAG_OFF is active; otherwise the bundle holds none
C5_NarrowingWhenActive ==
    (InPair("DIAG_OFF_FLEX") /\ ~cfg.msc) =>
        /\ (\E i \in 1..Len(offOut) : Flag("shorten-64-to-32") \in {offOut[i][k] : k \in 1..Len(offOut[i])})
              <=> ((cfg.clang \/ cfg.apple) /\ DiagActive)
        /\ (phase = "off") =>
              ((Flag("shorten-64-to-32") \in cc.ignored) <=> ((cfg.clang \/ cfg.apple) /\ DiagActive))

C5_Witness ==
    /\ InPair("DIAG_OFF_FLEX") /\ phase = "off"
    /\ ~cfg.msc /\ ~cfg.clang /\ cfg.apple /\ GccActive
    /\ Flag("shorten-64-to-32") \in cc.ignored

\* C6: outside Microsoft configurations, where DIAG_OFF is active, both
\* sign-compare and unreachable-code are suppressed between DIAG_OFF_FLEX and
\* DIAG_ON_FLEX, whether or not __clang__ or __APPLE__ is defined
C6_FixedBundle ==
    (InPair("DIAG_OFF_FLEX") /\ phase = "off" /\ ~cfg.msc /\ DiagActive) =>
        {Flag("sign-compare"), Flag("unreachable-code")} \subseteq cc.ignored

\* C7: without YYBYACC, DIAG_OFF_BYACC / DIAG_ON_BYACC are empty; with it,
\* outside Microsoft configurations and with DIAG_OFF active, DIAG_OFF_BYACC
\* suppresses exactly the shadow warning and DIAG_ON_BYACC restores the state
\* that held before it
C7_ByaccOnly ==
    InPair("DIAG_OFF_BYACC") =>
        /\ ~cfg.byacc => offOut = << >> /\ onOut = << >> /\ cc = before
        /\ (cfg.byacc /\ ~cfg.msc /\ DiagActive) =>
              /\ phase = "off" =>
                    /\ cc.ignored = before.ignored \cup {Flag("shadow")}
                    /\ Len(cc.stack) = Len(before.stack) + 1
              /\ phase = "on" => cc = before

C7_Witness ==
    /\ InPair("DIAG_OFF_BYACC") /\ phase = "on"
    /\ cfg.byacc /\ ~cfg.msc /\ DiagActive
    /\ before.ignored = {Flag("pedantic")}
    /\ Count(Emitted, "pop") = 1

\* C8: without __APPLE__, USES_APPLE_DEPRECATED_API / USES_APPLE_RST are
\* empty; with it they are DIAG_OFF(deprecated-declarations) /
\* DIAG_ON(deprecated-declarations) of the configuration, hence empty where
\* DIAG_OFF is the no-op
C8_AppleOnly ==
    InPair("USES_APPLE_DEPRECATED_API") =>
        /\ ~cfg.apple => offOut = << >> /\ onOut = << >>
        /\ cfg.apple =>
              /\ offOut = DIAG_OFF(cfg, "deprecated-declarations")
              /\ phase = "on" => onOut = DIAG_ON(cfg, "deprecated-declarations")
        /\ (cfg.apple /\ ~DiagActive) => offOut = << >> /\ onOut = << >>
        /\ (cfg.apple /\ DiagActive /\ phase = "off") =>
              cc.ignored = before.ignored \cup {Flag("deprecated-declarations")}

C8_Witness ==
    /\ InPair("USES_APPLE_DEPRECATED_API") /\ phase = "on"
    /\ cfg.apple /\ DiagActive
    /\ Count(offOut, "push") = 1 /\ Count(onOut, "pop") = 1

\* C9: whenever _MSC_VER is defined, DIAG_OFF_FLEX is one warning push followed
\* by disables of exactly the codes 4018, 4244, 4267, 6011, 6308, 6386, 6387
\* and 28182 with no -W directive, DIAG_ON_FLEX is one warning pop, and
\* DIAG_OFF_BYACC / DIAG_ON_BYACC are empty
C9_Microsoft ==
    cfg.msc =>
        /\ InPair("DIAG_OFF_FLEX") =>
              /\ Len(offOut) = 9
              /\ offOut[1] = <<"#pragma", "warning", "push">>
              /\ \A i \in 2..Len(offOut) :
                    Len(offOut[i]) = 4 /\ SubSeq(offOut[i], 1, 3) = <<"#pragma", "warning", "disable">>
              /\ {offOut[i][Len(offOut[i])] : i \in 2..Len(offOut)}
                    = {"4018", "4244", "4267", "6011", "6308", "6386", "6387", "28182"}
              /\ phase = "on" => onOut = <<<<"#pragma", "warning", "pop">>>>
        /\ InPair("DIAG_OFF_BYACC") => offOut = << >> /\ onOut = << >>

C9_Witness ==
    /\ InPair("DIAG_OFF_FLEX") /\ phase = "on"
    /\ cfg.msc /\ ClangActive /\ cfg.apple /\ cfg.byacc
    /\ Cardinality(before.ignored) + 8 = Cardinality(before.ignored \cup {offOut[i][Len(offOut[i])] : i \in 2..Len(offOut)})

\* C10: for well-nested DIAG_OFF(x) ... DIAG_ON(y) uses from an empty stack, on
\* a compiler where the pair is active a warning is suppressed exactly when an
\* unclosed DIAG_OFF named it, each saved state is that of the DIAG_OFF uses
\* enclosing it (so DIAG_ON restores it whatever its argument), the stack never
\* underflows and nothing is suppressed once all are closed; where the pair is
\* the no-op nothing is ever suppressed
C10_StackDiscipline ==
    phase = "nest" =>
        /\ DiagActive =>
              /\ cc.ignored = {Flag(open[i]) : i \in 1..Len(open)}
              /\ Len(cc.stack) = Len(open)
              /\ \A i \in 1..Len(cc.stack) : cc.stack[i] = {Flag(open[j]) : j \in 1..(i - 1)}
              /\ ~cc.underflow /\ ~cc.error
              /\ open = << >> => cc.ignored = {}
        /\ ~DiagActive => cc.ignored = {} /\ cc.stack = << >> /\ ~cc.underflow /\ ~cc.error

C10_Witness ==
    /\ phase = "nest" /\ DiagActive
    /\ closed = [off |-> "shadow", on |-> "SHADOW"]
    /\ open = <<"SHADOW">>
    /\ cc.ignored = {Flag("SHADOW")}

====
